---- MODULE Spec2Model ----
(***************************************************************************)
(* A model of plex-jellyfin-cli (src/cli.py): the title normalizer, the    *)
(* candidate matcher, the set reconciler (compare_titles) and the sync     *)
(* engine of main().  Titles are sequences of one-character strings, so    *)
(* that the regular expressions of normalize_title are modelled by what    *)
(* they do to the characters.                                              *)
(***************************************************************************)
EXTENDS Integers, Sequences, FiniteSets, TLC

VARIABLES
  pc,                \* where the operation being run stands
  args,              \* the arguments of the call, or the parsed command line (args.sync, args.dryrun)
  ret,               \* what a function under test returned
  plex_lib_movies,   \* the Plex "Movies" section: the movies on the Plex server
  plex_lib_tv,       \* the Plex "TV Shows" section: the shows and their episodes
  jellyfin_movies,   \* the Movie items of the Jellyfin server
  jellyfin_shows,    \* the Series items of the Jellyfin server
  jellyfin_episodes, \* the Episode items of the Jellyfin server
  local_list,        \* local_list / movies / local_shows: the Plex objects being iterated
  item_no,           \* the position of the for loop over local_list
  local_episodes,    \* lshow.episodes() of the show being processed
  remote_episodes,   \* jellyfin_get_episodes(rshow["Id"], ...) of the show being processed
  episode_no,        \* the position of the for loop over local_episodes
  calls,             \* the mutating catalog calls issued by the current run, in order
  out,               \* what the current run printed, in order
  run,               \* the number of the current invocation of main
  previous,          \* what the previous invocation was and how it went
  before             \* the catalogs as they were when the current run started

pureVars == <<pc, args, ret>>

catalogs == <<plex_lib_movies, plex_lib_tv, jellyfin_movies, jellyfin_shows, jellyfin_episodes>>

loopVars == <<local_list, item_no, local_episodes, remote_episodes, episode_no>>

syncVars == <<plex_lib_movies, plex_lib_tv, jellyfin_movies, jellyfin_shows, jellyfin_episodes,
              local_list, item_no, local_episodes, remote_episodes, episode_no, calls, out,
              run, previous, before>>

vars == <<pc, args, ret, plex_lib_movies, plex_lib_tv, jellyfin_movies, jellyfin_shows,
          jellyfin_episodes, local_list, item_no, local_episodes, remote_episodes, episode_no,
          calls, out, run, previous, before>>

\* no sync is running and the catalogs are empty: the state of the sync engine while a
\* function is exercised on its own
NoSync ==
  /\ plex_lib_movies = <<>> /\ plex_lib_tv = <<>>
  /\ jellyfin_movies = <<>> /\ jellyfin_shows = <<>> /\ jellyfin_episodes = <<>>
  /\ local_list = <<>> /\ item_no = 0
  /\ local_episodes = <<>> /\ remote_episodes = <<>> /\ episode_no = 0
  /\ calls = <<>> /\ out = <<>>
  /\ run = 0 /\ previous = [run |-> 0] /\ before = [run |-> 0]

(***************************************************************************)
(* Characters.  The printable ASCII characters in code-point order; the    *)
(* code point of Printable[i] is i + 31.  The double quote, the backslash  *)
(* and the backquote are written DQUOTE, BSLASH and BQUOTE.                *)
(***************************************************************************)
Printable ==
  << " ", "!", "DQUOTE", "#", "$", "%", "&", "'", "(", ")", "*", "+", ",", "-", ".", "/",
     "0", "1", "2", "3", "4", "5", "6", "7", "8", "9", ":", ";", "<", "=", ">", "?",
     "@", "A", "B", "C", "D", "E", "F", "G", "H", "I", "J", "K", "L", "M", "N", "O",
     "P", "Q", "R", "S", "T", "U", "V", "W", "X", "Y", "Z", "[", "BSLASH", "]", "^", "_",
     "BQUOTE", "a", "b", "c", "d", "e", "f", "g", "h", "i", "j", "k", "l", "m", "n", "o",
     "p", "q", "r", "s", "t", "u", "v", "w", "x", "y", "z", "{", "|", "}", "~" >>

Ord(c) == 31 + (CHOOSE i \in 1..Len(Printable) : Printable[i] = c)

Chr(n) == Printable[n - 31]

Between(lo, hi) == { Printable[i] : i \in (Ord(lo) - 31)..(Ord(hi) - 31) }

DigitChars == Between("0", "9")

UpperChars == Between("A", "Z")

LowerChars == Between("a", "z")

IsSpace(c) == c = " "

IsDigit(c) == c \in DigitChars

IsUpper(c) == c \in UpperChars

IsLower(c) == c \in LowerChars

\* \w of the re module on ASCII text: letters, digits and the underscore
IsWordChar(c) == IsUpper(c) \/ IsLower(c) \/ IsDigit(c) \/ c = "_"

LowerChar(c) == IF IsUpper(c) THEN Chr(Ord(c) + (Ord("a") - Ord("A"))) ELSE c

\* str.lower()
Lower(s) == [i \in 1..Len(s) |-> LowerChar(s[i])]

\* s[from:] of Python, with from counted from 1
Drop(s, n) == SubSeq(s, n + 1, Len(s))

\* the number of whitespace characters s starts with (a greedy \s*)
RECURSIVE LeadingSpaces(_)
LeadingSpaces(s) ==
  IF s # <<>> /\ IsSpace(Head(s)) THEN 1 + LeadingSpaces(Tail(s)) ELSE 0

\* s starts with the characters of p
StartsWith(s, p) == Len(s) >= Len(p) /\ SubSeq(s, 1, Len(p)) = p

\* str.strip()
RECURSIVE LStrip(_)
LStrip(s) == IF s # <<>> /\ IsSpace(Head(s)) THEN LStrip(Tail(s)) ELSE s

RECURSIVE RStrip(_)
RStrip(s) ==
  IF s # <<>> /\ IsSpace(s[Len(s)]) THEN RStrip(SubSeq(s, 1, Len(s) - 1)) ELSE s

Strip(s) == RStrip(LStrip(s))

(***************************************************************************)
(* normalize_title, src/cli.py:152-159, one operator per statement.        *)
(***************************************************************************)
\* \(\d{4}\) matches at the start of s
YearTokenAt(s) ==
  /\ Len(s) >= 6
  /\ s[1] = "("
  /\ \A i \in 2..5 : IsDigit(s[i])
  /\ s[6] = ")"

\* the length of the match of \s*\(\d{4}\) at the start of s, 0 if none
YearMatchLen(s) ==
  LET k == LeadingSpaces(s)
  IN IF YearTokenAt(Drop(s, k)) THEN k + 6 ELSE 0

\* re.sub(r"\s*\(\d{4}\)", "", title): leftmost matches, left to right
RECURSIVE StripYear(_)
StripYear(s) ==
  IF s = <<>> THEN <<>>
  ELSE LET m == YearMatchLen(s)
       IN IF m > 0 THEN StripYear(Drop(s, m))
          ELSE <<Head(s)>> \o StripYear(Tail(s))

\* the length of the match of (&|and) at the start of s, 0 if none
JoinerWordLen(s) ==
  IF StartsWith(s, <<"&">>) THEN 1
  ELSE IF StartsWith(s, <<"a", "n", "d">>) THEN 3
  ELSE 0

\* the length of the match of \s+(&|and)\s+ at the start of s, 0 if none
JoinerMatchLen(s) ==
  LET k == LeadingSpaces(s)
      w == JoinerWordLen(Drop(s, k))
      t == LeadingSpaces(Drop(s, k + w))
  IN IF k > 0 /\ w > 0 /\ t > 0 THEN k + w + t ELSE 0

\* re.sub(r"\s+(&|and)\s+", " and ", title)
RECURSIVE ReplaceJoiner(_)
ReplaceJoiner(s) ==
  IF s = <<>> THEN <<>>
  ELSE LET m == JoinerMatchLen(s)
       IN IF m > 0 THEN <<" ", "a", "n", "d", " ">> \o ReplaceJoiner(Drop(s, m))
          ELSE <<Head(s)>> \o ReplaceJoiner(Tail(s))

\* re.sub(r"[\W_]+", "", title)
RECURSIVE StripNonWord(_)
StripNonWord(s) ==
  IF s = <<>> THEN <<>>
  ELSE IF IsWordChar(Head(s)) /\ Head(s) # "_"
       THEN <<Head(s)>> \o StripNonWord(Tail(s))
       ELSE StripNonWord(Tail(s))

\* a slip: the year token is never removed, so its digits stay in the key
normalize_title_keeps_year(title) ==
  Strip(StripNonWord(ReplaceJoiner(Lower(title))))

\* a slip: the joiner step is left out, so "&" vanishes but "and" stays
normalize_title_no_joiner(title) ==
  Strip(StripNonWord(Lower(StripYear(title))))

\* a slip: the punctuation step is left out
normalize_title_keeps_punct(title) ==
  Strip(ReplaceJoiner(Lower(StripYear(title))))

normalize_title(title) ==
  Strip(StripNonWord(ReplaceJoiner(Lower(StripYear(title)))))

(***************************************************************************)
(* Bounded title inputs: concatenations of at most n fragments.            *)
(***************************************************************************)
MaxFrags == 3

Fragments ==
  { <<"a">>, <<"B">>, <<" ">>, <<"&">>, <<"a", "n", "d">>, <<"-">>, <<"_">>,
    <<"(", "1", "9", "9", "9", ")">>, <<"(", "1", "9">>, <<"9", "9", ")">> }

RECURSIVE TitlesOf(_, _)
TitlesOf(frags, n) ==
  IF n = 0 THEN { <<>> }
  ELSE LET shorter == TitlesOf(frags, n - 1)
       IN shorter \cup { t \o f : t \in shorter, f \in frags }

\* the titles of src/test_cli_unit.py:28-30 and of the examples built on them
ExampleTitles ==
  { <<"T", "h", "e", " ", "M", "a", "t", "r", "i", "x">>,
    <<"t", "h", "e", " ", "m", "a", "t", "r", "i", "x">>,
    <<"S", "p", "i", "d", "e", "r", "-", "M", "a", "n">>,
    <<"S", "p", "i", "d", "e", "r", " ", "M", "a", "n">> }

\* what follows the joiner in a joined title
Suffixes ==
  { <<>>, <<"b">>, <<" ", "b">>, <<"(", "2", "0", "0", "0", ")">>,
    <<" ", "(", "2", "0", "0", "0", ")", "b">>, <<"&", " ", "b">>,
    <<"M", "a", "r", "y", " ", "J", "a", "n", "e">> }

YearSuffixes ==
  { <<" ", "(", "1", "9", "9", "9", ")">>, <<" ", "(", "2", "0", "2", "0", ")">> }

AmpJoiner == <<" ", "&", " ">>

AndJoiner == <<" ", "a", "n", "d", " ">>

(***************************************************************************)
(* SpecNorm: normalize_title applied to the drawn titles.                  *)
(***************************************************************************)
NoRet == [op |-> "none"]

InitNorm ==
  /\ pc = "start"
  /\ args \in [X : TitlesOf(Fragments, MaxFrags) \cup ExampleTitles, Y : Suffixes]
  /\ ret = NoRet
  /\ NoSync

\* normalize_title(t)
CallNormalize ==
  /\ pc = "start"
  /\ pc' = "normalized"
  /\ ret' = [op |-> "normalize", t |-> args.X, n |-> normalize_title(args.X)]
  /\ UNCHANGED args
  /\ UNCHANGED syncVars

\* normalize_title applied to its own result
CallNormalizeAgain ==
  /\ pc = "normalized"
  /\ pc' = "renormalized"
  /\ ret' = [op |-> "again", t |-> ret.t, n |-> ret.n, nn |-> normalize_title(ret.n)]
  /\ UNCHANGED args
  /\ UNCHANGED syncVars

\* normalize_title(X + " & " + Y) and normalize_title(X + " and " + Y)
CallNormalizeJoined ==
  /\ pc = "start"
  /\ pc' = "joined"
  /\ ret' = [op |-> "joined",
             amp |-> normalize_title(args.X \o AmpJoiner \o args.Y),
             and |-> normalize_title(args.X \o AndJoiner \o args.Y)]
  /\ UNCHANGED args
  /\ UNCHANGED syncVars

\* normalize_title(t + " (Y)") next to normalize_title(t)
CallNormalizeYear ==
  /\ pc = "start"
  /\ \E y \in YearSuffixes :
       ret' = [op |-> "year", t |-> args.X, suffix |-> y,
               plain |-> normalize_title(args.X),
               suffixed |-> normalize_title(args.X \o y)]
  /\ pc' = "suffixed"
  /\ UNCHANGED args
  /\ UNCHANGED syncVars

NextNorm ==
  \/ CallNormalize
  \/ CallNormalizeAgain
  \/ CallNormalizeJoined
  \/ CallNormalizeYear

SpecNorm == InitNorm /\ [][NextNorm]_vars

(***************************************************************************)
(* fuzz.token_sort_ratio of rapidfuzz, called at src/cli.py:179: the        *)
(* whitespace-separated tokens of each string are sorted and joined by one *)
(* space, and the score is 100 * 2 * LCS / (len1 + len2), the normalized   *)
(* indel similarity (100 for two empty strings).                           *)
(***************************************************************************)
Max(a, b) == IF a >= b THEN a ELSE b

\* s1 < s2 as Python compares str: by code point, a proper prefix first
RECURSIVE StrLess(_, _)
StrLess(s1, s2) ==
  IF s2 = <<>> THEN FALSE
  ELSE IF s1 = <<>> THEN TRUE
  ELSE IF Head(s1) = Head(s2) THEN StrLess(Tail(s1), Tail(s2))
  ELSE Ord(Head(s1)) < Ord(Head(s2))

\* one string put in its place in a sorted list, after the strings equal to it
RECURSIVE InsertSorted(_, _)
InsertSorted(x, sorted) ==
  IF sorted = <<>> THEN <<x>>
  ELSE IF StrLess(x, Head(sorted)) THEN <<x>> \o sorted
  ELSE <<Head(sorted)>> \o InsertSorted(x, Tail(sorted))

\* sorted(strings): a stable ascending sort
RECURSIVE Sorted(_)
Sorted(strings) ==
  IF strings = <<>> THEN <<>>
  ELSE InsertSorted(strings[Len(strings)], Sorted(SubSeq(strings, 1, Len(strings) - 1)))

\* the characters of s before its first whitespace
RECURSIVE FirstToken(_)
FirstToken(s) ==
  IF s = <<>> \/ IsSpace(Head(s)) THEN <<>> ELSE <<Head(s)>> \o FirstToken(Tail(s))

\* str.split()
RECURSIVE Split(_)
Split(s) ==
  LET t == LStrip(s)
  IN IF t = <<>> THEN <<>>
     ELSE <<FirstToken(t)>> \o Split(Drop(t, Len(FirstToken(t))))

\* " ".join(tokens)
RECURSIVE Join(_)
Join(tokens) ==
  IF tokens = <<>> THEN <<>>
  ELSE IF Len(tokens) = 1 THEN tokens[1]
  ELSE tokens[1] \o <<" ">> \o Join(Tail(tokens))

\* one row of the longest-common-subsequence table: prev is the row above, cur the
\* cells of this row filled so far (cur[1] is column 0)
RECURSIVE LcsRow(_, _, _, _)
LcsRow(c, b, prev, cur) ==
  LET j == Len(cur)
  IN IF j > Len(b) THEN cur
     ELSE LcsRow(c, b, prev,
                 Append(cur, IF c = b[j] THEN prev[j] + 1
                             ELSE Max(prev[j + 1], cur[j])))

RECURSIVE LcsRows(_, _, _)
LcsRows(a, b, prev) ==
  IF a = <<>> THEN prev
  ELSE LcsRows(Tail(a), b, LcsRow(Head(a), b, prev, <<0>>))

\* the length of a longest common subsequence of a and b
Lcs(a, b) == LcsRows(a, b, [j \in 1..(Len(b) + 1) |-> 0])[Len(b) + 1]

\* fuzz.token_sort_ratio(s1, s2) >= threshold, in exact arithmetic
token_sort_ratio_ge(s1, s2, threshold) ==
  LET a == Join(Sorted(Split(s1)))
      b == Join(Sorted(Split(s2)))
  IN IF Len(a) + Len(b) = 0 THEN 100 >= threshold
     ELSE 200 * Lcs(a, b) >= threshold * (Len(a) + Len(b))

(***************************************************************************)
(* find_best_match, src/cli.py:162-181.  An optional year is <<>> (None)   *)
(* or <<y>>; candidate_years is <<>> (None or an empty list) or a sequence *)
(* parallel to candidates.  The result is None or the candidate returned.  *)
(***************************************************************************)
None == [isNone |-> TRUE, value |-> <<>>]

Some(v) == [isNone |-> FALSE, value |-> v]

\* bool(year): neither None nor 0
Truthy(year) == year # <<>> /\ year[1] # 0

\* a slip: with a query year, a candidate without a recorded year is refused
ExactBranchReturns_no_wildcard(title, candidates, year, candidate_years, idx) ==
  /\ normalize_title(title) = normalize_title(candidates[idx])
  /\ IF Truthy(year) /\ candidate_years # <<>>
     THEN Truthy(candidate_years[idx]) /\ candidate_years[idx][1] = year[1]
     ELSE TRUE

\* the branch of lines 167-177 returns the candidate at idx
ExactBranchReturns(title, candidates, year, candidate_years, idx) ==
  /\ normalize_title(title) = normalize_title(candidates[idx])
  /\ IF Truthy(year) /\ candidate_years # <<>>
     THEN \/ (Truthy(candidate_years[idx]) /\ candidate_years[idx][1] = year[1])
          \/ ~Truthy(candidate_years[idx])
     ELSE TRUE

\* the branch of lines 179-180 returns the candidate at idx
FuzzyBranchReturns(title, candidates, threshold, idx) ==
  token_sort_ratio_ge(normalize_title(title), normalize_title(candidates[idx]), threshold)

\* a slip: the fuzzy fallback is tried only when the normalized titles differ
LoopBodyReturns_fuzzy_only_if_different(title, candidates, threshold, year, candidate_years, idx) ==
  \/ ExactBranchReturns(title, candidates, year, candidate_years, idx)
  \/ /\ normalize_title(title) # normalize_title(candidates[idx])
     /\ FuzzyBranchReturns(title, candidates, threshold, idx)

\* a slip: the year of the candidate is never looked at
LoopBodyReturns_ignores_year(title, candidates, threshold, year, candidate_years, idx) ==
  \/ normalize_title(title) = normalize_title(candidates[idx])
  \/ FuzzyBranchReturns(title, candidates, threshold, idx)

\* a slip: no fuzzy fallback
LoopBodyReturns_no_fuzzy(title, candidates, threshold, year, candidate_years, idx) ==
  ExactBranchReturns(title, candidates, year, candidate_years, idx)

\* one pass of the loop body returns the candidate at idx (lines 165-180)
LoopBodyReturns(title, candidates, threshold, year, candidate_years, idx) ==
  \/ ExactBranchReturns(title, candidates, year, candidate_years, idx)
  \/ FuzzyBranchReturns(title, candidates, threshold, idx)

\* the index at which the loop of line 164 returns, scanning from idx; 0 if it runs out
RECURSIVE ScanFrom(_, _, _, _, _, _)
ScanFrom(title, candidates, threshold, year, candidate_years, idx) ==
  IF idx > Len(candidates) THEN 0
  ELSE IF LoopBodyReturns(title, candidates, threshold, year, candidate_years, idx) THEN idx
  ELSE ScanFrom(title, candidates, threshold, year, candidate_years, idx + 1)

\* a slip: the scan keeps the last acceptable candidate instead of returning the first
RECURSIVE ScanLast(_, _, _, _, _, _)
ScanLast(title, candidates, threshold, year, candidate_years, idx) ==
  IF idx = 0 THEN 0
  ELSE IF LoopBodyReturns(title, candidates, threshold, year, candidate_years, idx) THEN idx
  ELSE ScanLast(title, candidates, threshold, year, candidate_years, idx - 1)

find_best_match_index_last(title, candidates, threshold, year, candidate_years) ==
  ScanLast(title, candidates, threshold, year, candidate_years, Len(candidates))

find_best_match_index(title, candidates, threshold, year, candidate_years) ==
  ScanFrom(title, candidates, threshold, year, candidate_years, 1)

find_best_match(title, candidates, threshold, year, candidate_years) ==
  LET idx == find_best_match_index(title, candidates, threshold, year, candidate_years)
  IN IF idx = 0 THEN None ELSE Some(candidates[idx])

(***************************************************************************)
(* SpecMatch: find_best_match applied to the drawn arguments.              *)
(***************************************************************************)
MaxCandidates == 2

\* the default of line 162 and of --fuzzy (line 483)
DefaultThreshold == 85

\* the threshold of test_find_best_match_fuzzy
LowThreshold == 60

\* a threshold no score reaches (a score is at most 100): the fuzzy fallback never fires
HighThreshold == 101

Thresholds == { LowThreshold, DefaultThreshold, HighThreshold }

THE_MATRIX_1999 == <<"T", "h", "e", " ", "M", "a", "t", "r", "i", "x", " ", "(", "1", "9", "9", "9", ")">>

STAR_WARS_1977 == <<"S", "t", "a", "r", " ", "W", "a", "r", "s", ":", " ", "A", " ", "N", "e", "w", " ", "H", "o", "p", "e", " ", "(", "1", "9", "7", "7", ")">>

QueryTitles == { THE_MATRIX_1999, <<"T", "h", "e", " ", "M", "a", "t", "r", "i", "x">>, <<"M", "a", "t", "r", "i", "x">> }

CandidateTitles ==
  { THE_MATRIX_1999, STAR_WARS_1977, <<"M", "a", "t", "r", "i", "x">>, <<"t", "h", "e", " ", "m", "a", "t", "r", "i", "x">> }

QueryYears == { <<>>, <<1999>>, <<2000>> }

CandidateYears == { <<>>, <<1999>>, <<1977>> }

SeqsUpTo(S, n) == UNION { [1..k -> S] : k \in 0..n }

InitMatch ==
  /\ pc = "start"
  /\ \E candidates \in SeqsUpTo(CandidateTitles, MaxCandidates) :
       args \in [title : QueryTitles,
                 candidates : {candidates},
                 threshold : Thresholds,
                 year : QueryYears,
                 candidate_years : {<<>>} \cup [1..Len(candidates) -> CandidateYears]]
  /\ ret = NoRet
  /\ NoSync

CallFindBestMatch ==
  /\ pc = "start"
  /\ pc' = "matched"
  /\ ret' = [op |-> "find_best_match",
             idx |-> find_best_match_index(args.title, args.candidates, args.threshold,
                                           args.year, args.candidate_years),
             match |-> find_best_match(args.title, args.candidates, args.threshold,
                                       args.year, args.candidate_years)]
  /\ UNCHANGED args
  /\ UNCHANGED syncVars

NextMatch == CallFindBestMatch

SpecMatch == InitMatch /\ [][NextMatch]_vars

(***************************************************************************)
(* compare_titles, src/cli.py:184-272.  The lists of lines 192-241 are the *)
(* arguments here: the titles and years of the source and of the target.   *)
(***************************************************************************)
\* d[key] = value on a dict kept as a sequence of items in insertion order: a key
\* already present keeps its place and takes the new value
RECURSIVE DictSet(_, _, _)
DictSet(d, key, value) ==
  IF d = <<>> THEN << [key |-> key, value |-> value] >>
  ELSE IF Head(d).key = key THEN << [key |-> key, value |-> value] >> \o Tail(d)
  ELSE <<Head(d)>> \o DictSet(Tail(d), key, value)

\* {normalize_title(t): t for t in titles}
RECURSIVE NormDict(_)
NormDict(titles) ==
  IF titles = <<>> THEN <<>>
  ELSE DictSet(NormDict(SubSeq(titles, 1, Len(titles) - 1)),
               normalize_title(titles[Len(titles)]), titles[Len(titles)])

DictKeys(d) == { d[i].key : i \in 1..Len(d) }

\* "not match": None and the empty string are both false
NotMatch(match) == match.isNone \/ match.value = <<>>

\* a slip: the non-fuzzy test looks the original title up among the target titles
IsMissing_raw_titles(item, idx, source_years, target_titles, target_years, fuzzy, threshold) ==
  IF fuzzy
  THEN NotMatch(find_best_match(item.value, target_titles, threshold,
                                source_years[idx], target_years))
  ELSE item.value \notin { target_titles[i] : i \in 1..Len(target_titles) }

\* lines 252-264: the item at position idx of norm_source_titles is appended to missing
IsMissing(item, idx, source_years, target_titles, target_years, fuzzy, threshold) ==
  IF fuzzy
  THEN NotMatch(find_best_match(item.value, target_titles, threshold,
                                source_years[idx], target_years))
  ELSE item.key \notin DictKeys(NormDict(target_titles))

\* lines 250-264: missing, in the order of norm_source_titles, scanning from idx
RECURSIVE MissingFrom(_, _, _, _, _, _, _)
MissingFrom(items, idx, source_years, target_titles, target_years, fuzzy, threshold) ==
  IF idx > Len(items) THEN <<>>
  ELSE (IF IsMissing(items[idx], idx, source_years, target_titles, target_years,
                     fuzzy, threshold)
        THEN << items[idx].value >> ELSE <<>>)
       \o MissingFrom(items, idx + 1, source_years, target_titles, target_years,
                      fuzzy, threshold)

\* what compare_titles prints: the counts of line 267 and the titles of lines 269-270,
\* or the single line of line 272
compare_titles(source_titles, source_years, target_titles, target_years, fuzzy, threshold) ==
  LET missing == MissingFrom(NormDict(source_titles), 1, source_years, target_titles,
                             target_years, fuzzy, threshold)
  IN IF missing # <<>>
     THEN [op |-> "compare_titles", none_missing |-> FALSE, count |-> Len(missing),
           total |-> Len(source_titles), titles |-> Sorted(missing)]
     ELSE [op |-> "compare_titles", none_missing |-> TRUE, count |-> 0,
           total |-> Len(source_titles), titles |-> <<>>]

(***************************************************************************)
(* SpecCompare: compare_titles applied to the drawn catalogs.              *)
(***************************************************************************)
MaxSource == 2

MaxTarget == 2

\* the catalog items compared: a title and its year (<<>> when the record has none)
CompareItems ==
  { [title |-> <<"A", " ", "(", "2", "0", "2", "0", ")">>, year |-> <<2020>>],
    [title |-> <<"B", " ", "(", "2", "0", "2", "1", ")">>, year |-> <<2021>>],
    [title |-> <<"a">>, year |-> <<>>],
    [title |-> <<"b">>, year |-> <<2020>>],
    [title |-> <<"A", " ", "(", "2", "0", "2", "0", ")">>, year |-> <<1999>>] }

TitlesOfItems(items) == [i \in 1..Len(items) |-> items[i].title]

YearsOfItems(items) == [i \in 1..Len(items) |-> items[i].year]

InitCompare ==
  /\ pc = "start"
  /\ \E source \in SeqsUpTo(CompareItems, MaxSource),
        target \in SeqsUpTo(CompareItems, MaxTarget),
        fuzzy \in BOOLEAN :
       args = [source_titles |-> TitlesOfItems(source),
               source_years |-> YearsOfItems(source),
               target_titles |-> TitlesOfItems(target),
               target_years |-> YearsOfItems(target),
               fuzzy |-> fuzzy,
               threshold |-> DefaultThreshold]
  /\ ret = NoRet
  /\ NoSync

CallCompareTitles ==
  /\ pc = "start"
  /\ pc' = "compared"
  /\ ret' = compare_titles(args.source_titles, args.source_years, args.target_titles,
                           args.target_years, args.fuzzy, args.threshold)
  /\ UNCHANGED args
  /\ UNCHANGED syncVars

NextCompare == CallCompareTitles

SpecCompare == InitCompare /\ [][NextCompare]_vars

(***************************************************************************)
(* The sync engine, main() of src/cli.py, lines 615-726.                   *)
(*                                                                         *)
(* A Plex movie is [title, isPlayed, addedAt] and is known by its place in *)
(* plex_lib_movies; a Jellyfin movie is [Name, Played, DateCreated, Id].   *)
(* Times are seconds.  Every catalog call goes over the network and may    *)
(* fail: net names the call that fails in the step ("ok" when none does).  *)
(***************************************************************************)
\* "%Y-%m-%d %H:%M" (lines 129-132) and [:16] (line 629) keep minutes: 60 seconds
Minute == 60

\* timedelta(hours=12), lines 133-134, in seconds
TwelveHours == 43200

TruncateToMinute(t) == t - (t % Minute)

Min(S) == CHOOSE x \in S : \A y \in S : x <= y

\* one printed line: what it says, whether it carries the [DRYRUN] prefix, about what
Line(msg, dry, item) == [msg |-> msg, dryrun |-> dry, item |-> item]

\* the traceback Python prints when an exception ends the run: exc is "transport" for an
\* exception of requests or plexapi, "KeyError" for a field a record does not have
Traceback(exc) == Line("Traceback", FALSE, exc)

\* the lines a stretch of code leaves when it ends with exc
TracebackIf(exc) == IF exc = "none" THEN <<>> ELSE << Traceback(exc) >>

\* one mutating call: the API, the item it addresses, and how it ended
\* ("ok", "raised": a transport error, "rejected": a status other than 204)
Call(api, item, status) == [api |-> api, item |-> item, status |-> status]

\* what a stretch of code did: the catalogs after it, the mutating calls it issued, the
\* lines it printed, and the exception that ended it ("none" if it ran through)
Effect(plex, jellyfin, new_calls, new_out, exc) ==
  [plex |-> plex, jellyfin |-> jellyfin, calls |-> new_calls, out |-> new_out, exc |-> exc]

\* effect b after the lines and calls of a
After(a_calls, a_out, b) ==
  [b EXCEPT !.calls = a_calls \o @, !.out = a_out \o @]

\* rmovie.get("UserData", {}).get("Played", False)
Played(item) == IF "Played" \in DOMAIN item THEN item.Played ELSE FALSE

\* jellyfin_get_movie_by_title / jellyfin_get_tvshow_by_title, lines 58-63 and 88-93: the
\* place of the first item whose Name.lower() equals title.lower(), 0 for None
jellyfin_get_by_title(title, items) ==
  LET hits == { k \in 1..Len(items) : Lower(items[k].Name) = Lower(title) }
  IN IF hits = {} THEN 0 ELSE Min(hits)

\* lib_movies.get(title=movietitle) of plexapi: the first item whose title equals
\* movietitle, letter case ignored
plex_get(lib, movietitle) ==
  Min({ k \in 1..Len(lib) : Lower(lib[k].title) = Lower(movietitle) })

\* the place of the item with this Id
jellyfin_item(items, id) == CHOOSE k \in 1..Len(items) : items[k].Id = id

\* lines 129-135: the remote time lies outside the 12 hours either side of the local one
AddedAtOutOfRange(addedAt, addedat_date) ==
  LET dtdateobj == TruncateToMinute(addedAt)
      dtcompareaddedat_date == TruncateToMinute(addedat_date)
      startdate == dtdateobj - TwelveHours
      enddate == dtdateobj + TwelveHours
  IN dtcompareaddedat_date < startdate \/ dtcompareaddedat_date > enddate

\* a slip: videoentry.edit is called whatever dryrun says
EditIssued_ignores_dryrun(dryrun) == TRUE

\* line 139: if not dryrun
EditIssued(dryrun) == ~dryrun

\* movie_update_addedat, lines 127-141
movie_update_addedat(plex, jellyfin, movietitle, addedat_date, dryrun, net) ==
  IF net = "plex_get_fails" THEN Effect(plex, jellyfin, <<>>, <<>>, "transport")
  ELSE
    LET v == plex_get(plex, movietitle)
    IN IF ~AddedAtOutOfRange(plex[v].addedAt, addedat_date)
       THEN Effect(plex, jellyfin, <<>>, <<>>, "none")
       ELSE IF ~EditIssued(dryrun)
       THEN Effect(plex, jellyfin, <<>>, << Line("Updating Movie", dryrun, v) >>, "none")
       ELSE IF net = "plex_edit_fails"
       THEN Effect(plex, jellyfin, << Call("plex.edit", v, "raised") >>,
                   << Line("Updating Movie", dryrun, v) >>, "transport")
       ELSE Effect([plex EXCEPT ![v].addedAt = addedat_date], jellyfin,
                   << Call("plex.edit", v, "ok") >>,
                   << Line("Updating Movie", dryrun, v) >>, "none")

\* a slip: the local item is marked whenever the remote one is watched
ShouldMarkLocal_ignores_local(remote_played, local_played) == remote_played

\* lines 634-635 and 683-684: the remote item is watched and the local one is not
ShouldMarkLocal(remote_played, local_played) == remote_played /\ ~local_played

\* lines 649-651 and 713-715: the local item is watched and the remote one is not
ShouldMarkRemote(local_played, remote_played) == local_played /\ ~remote_played

\* a slip: markPlayed is called whatever dryrun says
MarkPlayedIssued_ignores_dryrun(dryrun) == TRUE

\* lines 639 and 688: if not dryrun
MarkPlayedIssued(dryrun) == ~dryrun

\* lines 634-640: the watched flag, Jellyfin to Plex, for the movie at place n
mark_local_movie(plex, jellyfin, n, lmovie, rmovie, dryrun, net) ==
  IF ~ShouldMarkLocal(Played(rmovie), lmovie.isPlayed)
  THEN Effect(plex, jellyfin, <<>>, <<>>, "none")
  ELSE IF ~MarkPlayedIssued(dryrun)
  THEN Effect(plex, jellyfin, <<>>,
              << Line("Remote watched and local unwatched", dryrun, n) >>, "none")
  ELSE IF net = "plex_mark_fails"
  THEN Effect(plex, jellyfin, << Call("plex.markPlayed", n, "raised") >>,
              << Line("Remote watched and local unwatched", dryrun, n) >>, "transport")
  ELSE Effect([plex EXCEPT ![n].isPlayed = TRUE], jellyfin,
              << Call("plex.markPlayed", n, "ok") >>,
              << Line("Remote watched and local unwatched", dryrun, n) >>, "none")

\* lines 623-640: the body of the loop of the direction jellyfin,plex for the movie at n
movie_jellyfin_to_plex(plex, jellyfin, n, lmovie, dryrun, net) ==
  IF net = "jellyfin_get_fails" THEN Effect(plex, jellyfin, <<>>, <<>>, "transport")
  ELSE
    LET r == jellyfin_get_by_title(lmovie.title, jellyfin)
    IN IF r = 0
       THEN Effect(plex, jellyfin, <<>>,
                   << Line("Unable to find movie in Jellyfin", FALSE, n) >>, "none")
       ELSE IF "DateCreated" \notin DOMAIN jellyfin[r]
       THEN Effect(plex, jellyfin, <<>>, << Line("Checking movie", FALSE, n) >>, "KeyError")
       ELSE
         LET remote_addedat == TruncateToMinute(jellyfin[r].DateCreated)
             upd == movie_update_addedat(plex, jellyfin, lmovie.title, remote_addedat,
                                         dryrun, net)
         IN IF upd.exc # "none"
            THEN After(<<>>, << Line("Checking movie", FALSE, n) >>, upd)
            ELSE After(upd.calls, << Line("Checking movie", FALSE, n) >> \o upd.out,
                       mark_local_movie(upd.plex, jellyfin, n, lmovie, jellyfin[r],
                                        dryrun, net))

\* a slip: the POST is sent whatever dryrun says
PlayedItemsIssued_ignores_dryrun(dryrun) == TRUE

\* lines 68-70 and 108-110: if dryrun: print ...; return
PlayedItemsIssued(dryrun) == ~dryrun

\* a slip: the POST flips the watched flag instead of setting it
jellyfin_mark_played_toggles(plex, jellyfin, id, dryrun, net) ==
  IF ~PlayedItemsIssued(dryrun)
  THEN Effect(plex, jellyfin, <<>>, << Line("Would mark as played in Jellyfin", TRUE, id) >>,
              "none")
  ELSE IF net = "jellyfin_post_fails"
  THEN Effect(plex, jellyfin, << Call("jellyfin.PlayedItems", id, "raised") >>, <<>>,
              "transport")
  ELSE IF net = "jellyfin_post_rejected"
  THEN Effect(plex, jellyfin, << Call("jellyfin.PlayedItems", id, "rejected") >>,
              << Line("Failed to mark as played in Jellyfin", FALSE, id) >>, "none")
  ELSE Effect(plex, [jellyfin EXCEPT ![jellyfin_item(jellyfin, id)].Played = ~@],
              << Call("jellyfin.PlayedItems", id, "ok") >>,
              << Line("Marked as played in Jellyfin", FALSE, id) >>, "none")

\* jellyfin_mark_movie_played and jellyfin_mark_episode_played, lines 66-75 and 106-115
jellyfin_mark_played(plex, jellyfin, id, dryrun, net) ==
  IF ~PlayedItemsIssued(dryrun)
  THEN Effect(plex, jellyfin, <<>>, << Line("Would mark as played in Jellyfin", TRUE, id) >>,
              "none")
  ELSE IF net = "jellyfin_post_fails"
  THEN Effect(plex, jellyfin, << Call("jellyfin.PlayedItems", id, "raised") >>, <<>>,
              "transport")
  ELSE IF net = "jellyfin_post_rejected"
  THEN Effect(plex, jellyfin, << Call("jellyfin.PlayedItems", id, "rejected") >>,
              << Line("Failed to mark as played in Jellyfin", FALSE, id) >>, "none")
  ELSE Effect(plex, [jellyfin EXCEPT ![jellyfin_item(jellyfin, id)].Played = TRUE],
              << Call("jellyfin.PlayedItems", id, "ok") >>,
              << Line("Marked as played in Jellyfin", FALSE, id) >>, "none")

\* a slip: the loop of plex,jellyfin also marks the local movie when the remote one is
\* watched and the local one is not
movie_plex_to_jellyfin_marks_local(plex, jellyfin, n, lmovie, dryrun, net) ==
  IF net = "jellyfin_get_fails" THEN Effect(plex, jellyfin, <<>>, <<>>, "transport")
  ELSE
    LET r == jellyfin_get_by_title(lmovie.title, jellyfin)
    IN IF r = 0
       THEN Effect(plex, jellyfin, <<>>,
                   << Line("Unable to find movie in Jellyfin", FALSE, n) >>, "none")
       ELSE IF ~ShouldMarkRemote(lmovie.isPlayed, Played(jellyfin[r]))
       THEN After(<<>>, << Line("Checking movie", FALSE, n) >>,
                  mark_local_movie(plex, jellyfin, n, lmovie, jellyfin[r], dryrun, "ok"))
       ELSE IF "Id" \notin DOMAIN jellyfin[r]
       THEN Effect(plex, jellyfin, <<>>,
                   << Line("Checking movie", FALSE, n),
                      Line("Local watched and remote unwatched", dryrun, n) >>, "KeyError")
       ELSE After(<<>>,
                  << Line("Checking movie", FALSE, n),
                     Line("Local watched and remote unwatched", dryrun, n) >>,
                  jellyfin_mark_played(plex, jellyfin, jellyfin[r].Id, dryrun, net))

\* lines 644-657: the body of the loop of the direction plex,jellyfin for the movie at n
movie_plex_to_jellyfin(plex, jellyfin, n, lmovie, dryrun, net) ==
  IF net = "jellyfin_get_fails" THEN Effect(plex, jellyfin, <<>>, <<>>, "transport")
  ELSE
    LET r == jellyfin_get_by_title(lmovie.title, jellyfin)
    IN IF r = 0
       THEN Effect(plex, jellyfin, <<>>,
                   << Line("Unable to find movie in Jellyfin", FALSE, n) >>, "none")
       ELSE IF ~ShouldMarkRemote(lmovie.isPlayed, Played(jellyfin[r]))
       THEN Effect(plex, jellyfin, <<>>, << Line("Checking movie", FALSE, n) >>, "none")
       ELSE IF "Id" \notin DOMAIN jellyfin[r]
       THEN Effect(plex, jellyfin, <<>>,
                   << Line("Checking movie", FALSE, n),
                      Line("Local watched and remote unwatched", dryrun, n) >>, "KeyError")
       ELSE After(<<>>,
                  << Line("Checking movie", FALSE, n),
                     Line("Local watched and remote unwatched", dryrun, n) >>,
                  jellyfin_mark_played(plex, jellyfin, jellyfin[r].Id, dryrun, net))

(***************************************************************************)
(* TV shows.  A Plex show is [title, episodes] and a Plex episode is       *)
(* [seasonNumber, index, isPlayed, title], known by the places of its show *)
(* and of itself; a Jellyfin show is [Name, Id] and a Jellyfin episode is  *)
(* [SeriesId, SeasonNumber, IndexNumber, Played, Name, Id].                *)
(***************************************************************************)
\* jellyfin_get_episodes, lines 96-103: the Episode items below the show, as they are now
jellyfin_get_episodes(show_id, episodes) ==
  SelectSeq(episodes, LAMBDA ep : ep.SeriesId = show_id)

\* a slip: an episode is paired with the remote episode of the same title
EpisodeMatches_by_title(rep, lepisode) == rep.Name = lepisode.title

\* lines 678-679 and 707-708
EpisodeMatches(rep, lepisode) ==
  rep.IndexNumber = lepisode.index /\ rep.SeasonNumber = lepisode.seasonNumber

\* lines 674-682 and 703-711: next((re for re in remote_episodes if ...), None), from
\* place k on: the place of the first remote episode that matches, 0 for None; a remote
\* episode without the field that is read ends the search with a KeyError
RECURSIVE next_match(_, _, _)
next_match(remote, k, lepisode) ==
  IF k > Len(remote) THEN [exc |-> "none", match |-> 0]
  ELSE IF "IndexNumber" \notin DOMAIN remote[k] THEN [exc |-> "KeyError", match |-> 0]
  ELSE IF remote[k].IndexNumber = lepisode.index /\ "SeasonNumber" \notin DOMAIN remote[k]
  THEN [exc |-> "KeyError", match |-> 0]
  ELSE IF EpisodeMatches(remote[k], lepisode) THEN [exc |-> "none", match |-> k]
  ELSE next_match(remote, k + 1, lepisode)

\* lines 673-689: the body of the episode loop of the direction jellyfin,plex, for the
\* episode at place e of the show at place n
episode_jellyfin_to_plex(plex, jellyfin, n, e, lepisode, remote, dry, net) ==
  LET m == next_match(remote, 1, lepisode)
  IN IF m.exc # "none" THEN Effect(plex, jellyfin, <<>>, <<>>, m.exc)
     ELSE IF ~(m.match # 0 /\ ShouldMarkLocal(Played(remote[m.match]), lepisode.isPlayed))
     THEN Effect(plex, jellyfin, <<>>, <<>>, "none")
     ELSE IF ~MarkPlayedIssued(dry)
     THEN Effect(plex, jellyfin, <<>>,
                 << Line("Remote watched and local unwatched", dry, <<n, e>>) >>, "none")
     ELSE IF net = "plex_mark_fails"
     THEN Effect(plex, jellyfin, << Call("plex.markPlayed", <<n, e>>, "raised") >>,
                 << Line("Remote watched and local unwatched", dry, <<n, e>>) >>,
                 "transport")
     ELSE Effect([plex EXCEPT ![n].episodes[e].isPlayed = TRUE], jellyfin,
                 << Call("plex.markPlayed", <<n, e>>, "ok") >>,
                 << Line("Remote watched and local unwatched", dry, <<n, e>>) >>, "none")

\* lines 702-722: the body of the episode loop of the direction plex,jellyfin
episode_plex_to_jellyfin(plex, jellyfin, n, e, lepisode, remote, dry, net) ==
  LET m == next_match(remote, 1, lepisode)
  IN IF m.exc # "none" THEN Effect(plex, jellyfin, <<>>, <<>>, m.exc)
     ELSE IF ~(m.match # 0 /\ ShouldMarkRemote(lepisode.isPlayed, Played(remote[m.match])))
     THEN Effect(plex, jellyfin, <<>>, <<>>, "none")
     ELSE IF "Id" \notin DOMAIN remote[m.match]
     THEN Effect(plex, jellyfin, <<>>,
                 << Line("Local watched and remote unwatched", dry, <<n, e>>) >>, "KeyError")
     ELSE After(<<>>, << Line("Local watched and remote unwatched", dry, <<n, e>>) >>,
                jellyfin_mark_played(plex, jellyfin, remote[m.match].Id, dry, net))

(***************************************************************************)
(* The command line of --sync and the catalogs a run starts from.          *)
(***************************************************************************)
JELLYFIN == <<"j", "e", "l", "l", "y", "f", "i", "n">>

JELLYFIN_PLEX == <<"j", "e", "l", "l", "y", "f", "i", "n", ",", "p", "l", "e", "x">>

PLEX_JELLYFIN == <<"p", "l", "e", "x", ",", "j", "e", "l", "l", "y", "f", "i", "n">>

MOVIES == <<"m", "o", "v", "i", "e", "s">>

TV == <<"t", "v">>

\* what is typed for DIRECTION the first time: one direction, the other one with a
\* capital and a space, and a direction that is neither
DirectionArgs ==
  { JELLYFIN_PLEX,
    <<"P", "l", "e", "x", ",", " ", "j", "e", "l", "l", "y", "f", "i", "n">>,
    <<"p", "l", "e", "x">> }

\* what is typed for DIRECTION when the command is given again
DirectionArgsAgain == { JELLYFIN_PLEX, PLEX_JELLYFIN }

\* what may be typed for LIBRARY
LibraryArgs == { MOVIES, <<"T", "V">>, <<"m", "u", "s", "i", "c">> }

\* str.replace(" ", "")
RECURSIVE RemoveSpaces(_)
RemoveSpaces(s) ==
  IF s = <<>> THEN <<>>
  ELSE IF Head(s) = " " THEN RemoveSpaces(Tail(s))
  ELSE <<Head(s)>> \o RemoveSpaces(Tail(s))

\* sub in s
Contains(s, sub) == \E k \in 0..Len(s) : StartsWith(Drop(s, k), sub)

\* line 616: args.sync[0].lower().replace(" ", "")
direction == RemoveSpaces(Lower(args.direction))

\* line 617: args.sync[1].lower()
library == Lower(args.library)

\* line 618
dryrun == args.dryrun

\* lines 497-507: the sync needs the Jellyfin user id
needs_jellyfin == Contains(Lower(args.direction), JELLYFIN)

MaxMovies == 2

MaxRuns == 2

\* 1970-01-02 00:00:30, the time every Plex movie was added at
PlexAddedAt == 86430

PlexTitles == { <<"A">>, <<"a", "-">> }

\* 12:00:59 and 12:01:00 after the Plex time's midnight: the last minute within twelve
\* hours of the Plex time and the first one beyond
JellyfinDates == { 129659, 129660 }

\* 11:59:59 and 12:00:00 before the Plex time's midnight: the first minute more than
\* twelve hours before the Plex time and the first one within
JellyfinEarlyDates == { 43199, 43200 }

PlexMovies == [title : PlexTitles, isPlayed : BOOLEAN, addedAt : {PlexAddedAt}]

\* the items of a Jellyfin answer, each with an Id of its own
WithIds(items) ==
  [k \in 1..Len(items) |->
     IF "DateCreated" \in DOMAIN items[k]
     THEN [Name |-> items[k].Name, Played |-> items[k].Played,
           DateCreated |-> items[k].DateCreated, Id |-> k]
     ELSE [Name |-> items[k].Name, Played |-> items[k].Played, Id |-> k]]

\* the movie "a", watched or not and created late, or unwatched and created early, or
\* watched and without a DateCreated; the movie "b", watched and created late
JellyfinMovies ==
  [Name : {<<"a">>}, Played : BOOLEAN, DateCreated : JellyfinDates] \cup
  [Name : {<<"a">>}, Played : {FALSE}, DateCreated : JellyfinEarlyDates] \cup
  { [Name |-> <<"a">>, Played |-> TRUE] } \cup
  { [Name |-> <<"b">>, Played |-> TRUE, DateCreated |-> 129660] }

JellyfinMovieLists == { WithIds(items) : items \in SeqsUpTo(JellyfinMovies, MaxMovies) }

\* the catalogs as a run finds them
Snapshot ==
  [run |-> run, plex_lib_movies |-> plex_lib_movies, plex_lib_tv |-> plex_lib_tv,
   jellyfin_movies |-> jellyfin_movies, jellyfin_shows |-> jellyfin_shows,
   jellyfin_episodes |-> jellyfin_episodes]

MaxShows == 2

MaxEpisodes == 2

\* every Plex episode is titled "y"; a Jellyfin episode is named "x" when it is the first
\* of its season and "y" otherwise, so that names agree where numbers differ and differ
\* where numbers agree
LocalEpisode(season, index, isPlayed) ==
  [seasonNumber |-> season, index |-> index, isPlayed |-> isPlayed, title |-> <<"y">>]

LocalEpisodes ==
  { LocalEpisode(1, 1, FALSE), LocalEpisode(1, 1, TRUE), LocalEpisode(2, 1, TRUE) }

RemoteEpisode(series, season, index, played) ==
  [SeriesId |-> series, SeasonNumber |-> season, IndexNumber |-> index, Played |-> played,
   Name |-> IF index = 1 THEN <<"x">> ELSE <<"y">>]

\* the episodes the show "a" can have, and the one watched episode of any other show
RemoteEpisodes(shows) ==
  UNION { IF shows[k].Name = <<"a">>
          THEN { RemoteEpisode(shows[k].Id, 1, 1, TRUE), RemoteEpisode(shows[k].Id, 1, 1, FALSE),
                 RemoteEpisode(shows[k].Id, 1, 2, TRUE), RemoteEpisode(shows[k].Id, 2, 1, FALSE) }
          ELSE { RemoteEpisode(shows[k].Id, 1, 1, TRUE) } : k \in 1..Len(shows) }

\* the show "B" has one unwatched episode
SHOW_B == [title |-> <<"B">>, episodes |-> << LocalEpisode(1, 1, FALSE) >>]

\* no show, the show "A", or the show "A" followed by shows "B"
PlexShowLists ==
  { [k \in 1..n |-> IF k = 1 THEN [title |-> <<"A">>, episodes |-> episodes] ELSE SHOW_B] :
      episodes \in SeqsUpTo(LocalEpisodes, MaxEpisodes), n \in 0..MaxShows }

\* no show, the show "a", or the shows "b" and "a"
JellyfinShowLists ==
  { <<>>,
    << [Name |-> <<"a">>, Id |-> 1] >>,
    << [Name |-> <<"b">>, Id |-> 1], [Name |-> <<"a">>, Id |-> 2] >> }

EpisodesWithIds(items) ==
  [k \in 1..Len(items) |->
     [SeriesId |-> items[k].SeriesId, SeasonNumber |-> items[k].SeasonNumber,
      IndexNumber |-> items[k].IndexNumber, Played |-> items[k].Played,
      Name |-> items[k].Name, Id |-> k]]

JellyfinEpisodeLists(shows) ==
  { EpisodesWithIds(items) :
      items \in SeqsUpTo(RemoteEpisodes(shows), MaxEpisodes) }

(***************************************************************************)
(* The runs of main() with --sync.                                         *)
(***************************************************************************)
Init ==
  /\ pc = "start"
  /\ ret = NoRet
  /\ args \in [direction : DirectionArgs, library : LibraryArgs, dryrun : BOOLEAN]
  /\ IF library = MOVIES
     THEN /\ plex_lib_movies \in SeqsUpTo(PlexMovies, MaxMovies)
          /\ jellyfin_movies \in JellyfinMovieLists
     ELSE plex_lib_movies = <<>> /\ jellyfin_movies = <<>>
  /\ IF library = TV
     THEN /\ plex_lib_tv \in PlexShowLists
          /\ jellyfin_shows \in JellyfinShowLists
          /\ jellyfin_episodes \in JellyfinEpisodeLists(jellyfin_shows)
     ELSE plex_lib_tv = <<>> /\ jellyfin_shows = <<>> /\ jellyfin_episodes = <<>>
  /\ local_list = <<>> /\ item_no = 0
  /\ local_episodes = <<>> /\ remote_episodes = <<>> /\ episode_no = 0
  /\ calls = <<>> /\ out = <<>>
  /\ run = 1
  /\ previous = [run |-> 0]
  /\ before = Snapshot

\* a catalog call of the step fails and nobody catches the exception: the run ends
Crash ==
  /\ pc' = "crashed"
  /\ out' = out \o << Traceback("transport") >>
  /\ UNCHANGED <<args, ret, catalogs, loopVars, calls, run, previous, before>>

\* lines 494-509 and 615-620, 660-662, 725: the user id is looked up when the direction
\* names jellyfin, then the library and the direction are looked at
StartSync ==
  /\ pc = "start" /\ run >= 1
  /\ \E net \in {"ok", "jellyfin_users_fails", "plex_search_fails"} :
       IF needs_jellyfin /\ net = "jellyfin_users_fails" THEN Crash
       ELSE IF library \notin {MOVIES, TV}
       THEN /\ pc' = "done"
            /\ out' = out \o << Line("Invalid --sync parameters", FALSE, 0) >>
            /\ UNCHANGED <<args, ret, catalogs, loopVars, calls, run, previous, before>>
       ELSE IF direction # JELLYFIN_PLEX
       THEN /\ pc' = IF library = MOVIES THEN "movies_second_if" ELSE "tv_second_if"
            /\ UNCHANGED <<args, ret, catalogs, loopVars, calls, out, run, previous, before>>
       ELSE IF net = "plex_search_fails" THEN Crash
       ELSE /\ pc' = IF library = MOVIES THEN "movies_jellyfin_plex" ELSE "tv_jellyfin_plex"
            /\ local_list' = IF library = MOVIES THEN plex_lib_movies ELSE plex_lib_tv
            /\ item_no' = 1
            /\ UNCHANGED <<args, ret, catalogs, local_episodes, remote_episodes, episode_no,
                           calls, out, run, previous, before>>

\* a slip: break where the code has continue
NextItem_break(n, list) == Len(list) + 1

\* lines 622, 626, 643, 647, 663, 667, 692, 696: the for loop goes on to its next item,
\* after the body or after a continue
NextItem(n, list) == n + 1

\* what the body of a movie loop did is applied, and the loop goes on or the run ends
MovieLoopBody(eff) ==
  /\ plex_lib_movies' = eff.plex
  /\ jellyfin_movies' = eff.jellyfin
  /\ calls' = calls \o eff.calls
  /\ out' = out \o eff.out \o TracebackIf(eff.exc)
  /\ IF eff.exc = "none"
     THEN pc' = pc /\ item_no' = NextItem(item_no, local_list)
     ELSE pc' = "crashed" /\ item_no' = item_no
  /\ UNCHANGED <<args, ret, plex_lib_tv, jellyfin_shows, jellyfin_episodes, local_list,
                 local_episodes, remote_episodes, episode_no, run, previous, before>>

\* lines 622-640, one turn of the loop
MovieJellyfinToPlex ==
  /\ pc = "movies_jellyfin_plex"
  /\ item_no <= Len(local_list)
  /\ \E net \in {"ok", "jellyfin_get_fails", "plex_get_fails", "plex_edit_fails",
                 "plex_mark_fails"} :
       MovieLoopBody(movie_jellyfin_to_plex(plex_lib_movies, jellyfin_movies, item_no,
                                            local_list[item_no], dryrun, net))

\* lines 641-642 and 658-659: the second if is reached whatever the first one did; when it
\* does not hold, the line after it is printed and main returns
MoviesSecondIf ==
  /\ \/ pc = "movies_jellyfin_plex" /\ item_no > Len(local_list)
     \/ pc = "movies_second_if"
  /\ \E net \in {"ok", "plex_search_fails"} :
       IF direction # PLEX_JELLYFIN
       THEN /\ pc' = "done"
            /\ out' = out \o << Line("Unknown sync direction", FALSE, 0) >>
            /\ UNCHANGED <<args, ret, catalogs, loopVars, calls, run, previous, before>>
       ELSE IF net = "plex_search_fails" THEN Crash
       ELSE /\ pc' = "movies_plex_jellyfin"
            /\ local_list' = plex_lib_movies
            /\ item_no' = 1
            /\ UNCHANGED <<args, ret, catalogs, local_episodes, remote_episodes, episode_no,
                           calls, out, run, previous, before>>

\* lines 643-657, one turn of the loop
MoviePlexToJellyfin ==
  /\ pc = "movies_plex_jellyfin"
  /\ item_no <= Len(local_list)
  /\ \E net \in {"ok", "jellyfin_get_fails", "jellyfin_post_fails",
                 "jellyfin_post_rejected"} :
       MovieLoopBody(movie_plex_to_jellyfin(plex_lib_movies, jellyfin_movies, item_no,
                                            local_list[item_no], dryrun, net))

\* lines 658 and 723: the line that follows the loop of plex,jellyfin, and the return
PrintUnknownDirection ==
  /\ pc \in {"movies_plex_jellyfin", "tv_plex_jellyfin"}
  /\ item_no > Len(local_list)
  /\ pc' = "done"
  /\ out' = out \o << Line("Unknown sync direction", FALSE, 0) >>
  /\ UNCHANGED <<args, ret, catalogs, loopVars, calls, run, previous, before>>

\* lines 663-672 and 692-701: the show at place item_no is looked up in Jellyfin and the
\* episodes of both sides are fetched
TvShow(showpc, episodepc) ==
  /\ pc = showpc
  /\ item_no <= Len(local_list)
  /\ \E net \in {"ok", "jellyfin_get_fails", "plex_episodes_fails", "jellyfin_episodes_fails"} :
       LET lshow == local_list[item_no]
           r == jellyfin_get_by_title(lshow.title, jellyfin_shows)
           checking == Line("Checking show", FALSE, item_no)
       IN IF net = "jellyfin_get_fails" THEN Crash
          ELSE IF r = 0
          THEN /\ out' = out \o << Line("Unable to find show in Jellyfin", FALSE, item_no) >>
               /\ item_no' = NextItem(item_no, local_list)
               /\ UNCHANGED <<pc, args, ret, catalogs, local_list, local_episodes,
                              remote_episodes, episode_no, calls, run, previous, before>>
          ELSE IF \/ net \in {"plex_episodes_fails", "jellyfin_episodes_fails"}
                  \/ "Id" \notin DOMAIN jellyfin_shows[r]
          THEN /\ pc' = "crashed"
               /\ out' = out \o << checking,
                                   Traceback(IF /\ net # "plex_episodes_fails"
                                                /\ "Id" \notin DOMAIN jellyfin_shows[r]
                                             THEN "KeyError" ELSE "transport") >>
               /\ UNCHANGED <<args, ret, catalogs, loopVars, calls, run, previous, before>>
          ELSE /\ pc' = episodepc
               /\ out' = out \o << checking >>
               /\ local_episodes' = plex_lib_tv[item_no].episodes
               /\ remote_episodes' = jellyfin_get_episodes(jellyfin_shows[r].Id,
                                                           jellyfin_episodes)
               /\ episode_no' = 1
               /\ UNCHANGED <<args, ret, catalogs, local_list, item_no, calls, run,
                              previous, before>>

TvShowJellyfinToPlex == TvShow("tv_jellyfin_plex", "tv_jellyfin_plex_episodes")

TvShowPlexToJellyfin == TvShow("tv_plex_jellyfin", "tv_plex_jellyfin_episodes")

\* what the body of an episode loop did is applied, and the loop goes on or the run ends
EpisodeLoopBody(eff) ==
  /\ plex_lib_tv' = eff.plex
  /\ jellyfin_episodes' = eff.jellyfin
  /\ calls' = calls \o eff.calls
  /\ out' = out \o eff.out \o TracebackIf(eff.exc)
  /\ IF eff.exc = "none"
     THEN pc' = pc /\ episode_no' = episode_no + 1
     ELSE pc' = "crashed" /\ episode_no' = episode_no
  /\ UNCHANGED <<args, ret, plex_lib_movies, jellyfin_movies, jellyfin_shows, local_list,
                 item_no, local_episodes, remote_episodes, run, previous, before>>

\* lines 673-689, one turn of the episode loop
EpisodeJellyfinToPlex ==
  /\ pc = "tv_jellyfin_plex_episodes"
  /\ episode_no <= Len(local_episodes)
  /\ \E net \in {"ok", "plex_mark_fails"} :
       EpisodeLoopBody(episode_jellyfin_to_plex(plex_lib_tv, jellyfin_episodes, item_no,
                                                episode_no, local_episodes[episode_no],
                                                remote_episodes, dryrun, net))

\* lines 702-722, one turn of the episode loop
EpisodePlexToJellyfin ==
  /\ pc = "tv_plex_jellyfin_episodes"
  /\ episode_no <= Len(local_episodes)
  /\ \E net \in {"ok", "jellyfin_post_fails", "jellyfin_post_rejected"} :
       EpisodeLoopBody(episode_plex_to_jellyfin(plex_lib_tv, jellyfin_episodes, item_no,
                                                episode_no, local_episodes[episode_no],
                                                remote_episodes, dryrun, net))

\* the episode loop is through: the show loop takes its next show
EpisodesDone ==
  /\ pc \in {"tv_jellyfin_plex_episodes", "tv_plex_jellyfin_episodes"}
  /\ episode_no > Len(local_episodes)
  /\ pc' = IF pc = "tv_jellyfin_plex_episodes" THEN "tv_jellyfin_plex" ELSE "tv_plex_jellyfin"
  /\ item_no' = NextItem(item_no, local_list)
  /\ UNCHANGED <<args, ret, catalogs, local_list, local_episodes, remote_episodes,
                 episode_no, calls, out, run, previous, before>>

\* lines 690-691 and 723-724: the second if is reached whatever the first one did; when it
\* does not hold, the line after it is printed and main returns
TvSecondIf ==
  /\ \/ pc = "tv_jellyfin_plex" /\ item_no > Len(local_list)
     \/ pc = "tv_second_if"
  /\ \E net \in {"ok", "plex_search_fails"} :
       IF direction # PLEX_JELLYFIN
       THEN /\ pc' = "done"
            /\ out' = out \o << Line("Unknown sync direction", FALSE, 0) >>
            /\ UNCHANGED <<args, ret, catalogs, loopVars, calls, run, previous, before>>
       ELSE IF net = "plex_search_fails" THEN Crash
       ELSE /\ pc' = "tv_plex_jellyfin"
            /\ local_list' = plex_lib_tv
            /\ item_no' = 1
            /\ UNCHANGED <<args, ret, catalogs, local_episodes, remote_episodes, episode_no,
                           calls, out, run, previous, before>>

\* the command is given again after a run that came to its end, for the same library: in
\* either direction, dry or not
NextRun ==
  /\ pc = "done"
  /\ run >= 1 /\ run < MaxRuns
  /\ previous' = [run |-> run, args |-> args, pc |-> pc, calls |-> calls, out |-> out,
                  before |-> before]
  /\ args' \in [direction : DirectionArgsAgain, library : {args.library}, dryrun : BOOLEAN]
  /\ pc' = "start"
  /\ run' = run + 1
  /\ before' = [Snapshot EXCEPT !.run = run + 1]
  /\ local_list' = <<>> /\ item_no' = 0
  /\ local_episodes' = <<>> /\ remote_episodes' = <<>> /\ episode_no' = 0
  /\ calls' = <<>> /\ out' = <<>>
  /\ UNCHANGED <<ret, catalogs>>

Next ==
  \/ StartSync
  \/ MovieJellyfinToPlex
  \/ MoviesSecondIf
  \/ MoviePlexToJellyfin
  \/ PrintUnknownDirection
  \/ TvShowJellyfinToPlex
  \/ EpisodeJellyfinToPlex
  \/ TvSecondIf
  \/ TvShowPlexToJellyfin
  \/ EpisodePlexToJellyfin
  \/ EpisodesDone
  \/ NextRun

Spec == Init /\ [][Next]_vars

(***************************************************************************)
(* Claims about normalize_title, checked under SpecNorm.                   *)
(***************************************************************************)
\* [a-z0-9]* : lowercase letters and digits only
OnlyLowerAlnum(s) == \A i \in 1..Len(s) : IsLower(s[i]) \/ IsDigit(s[i])

EndsWith(s, p) == Len(s) >= Len(p) /\ SubSeq(s, Len(s) - Len(p) + 1, Len(s)) = p

\* s ends in a whitespace-preceded "&" or "and", optionally followed by whitespace
EndsWithJoinerWord(s) ==
  \/ EndsWith(RStrip(s), <<" ", "&">>)
  \/ EndsWith(RStrip(s), <<" ", "a", "n", "d">>)

\* C6: normalize_title is idempotent: normalizing a normalized title changes nothing.
C6_Idempotent == pc = "renormalized" => ret.nn = ret.n

\* C6 witness: a title that normalization changed, to a non-empty key, normalized twice
C6_Witness ==
  /\ pc = "renormalized"
  /\ ret.n # <<>>
  /\ ret.n # ret.t
  /\ \E i \in 1..Len(ret.t) : ret.t[i] = "("

JoinerSurvives(X, Y) ==
  /\ ~EndsWithJoinerWord(Lower(StripYear(X)))
  /\ YearMatchLen(Y) = 0

C8_YearSuffixIgnored ==
  pc = "suffixed" => (ret.suffixed = ret.plain /\ OnlyLowerAlnum(ret.plain))

\* C8 amended: for every t that does not end in whitespace, normalize_title(t + " (Y)")
\* equals normalize_title(t); and every key holds lowercase letters and digits only.
C8_YearSuffixIgnoredNoTrailingSpace ==
  pc = "suffixed" =>
    /\ OnlyLowerAlnum(ret.plain) /\ OnlyLowerAlnum(ret.suffixed)
    /\ (ret.t = <<>> \/ ~IsSpace(ret.t[Len(ret.t)])) => ret.suffixed = ret.plain

\* C8 witness: "The Matrix (1999)" and "The Matrix" both give "thematrix"
C8_Witness ==
  /\ pc = "suffixed"
  /\ ret.t = <<"T", "h", "e", " ", "M", "a", "t", "r", "i", "x">>
  /\ ret.suffixed = <<"t", "h", "e", "m", "a", "t", "r", "i", "x">>
  /\ ret.plain = <<"t", "h", "e", "m", "a", "t", "r", "i", "x">>

(***************************************************************************)
(* Claims about find_best_match, checked under SpecMatch.                  *)
(***************************************************************************)
\* the candidate at i has the query's normalized title but a recorded year that is
\* not the query year
YearMismatch(i) ==
  /\ normalize_title(args.candidates[i]) = normalize_title(args.title)
  /\ Truthy(args.candidate_years[i])
  /\ args.candidate_years[i][1] # args.year[1]

\* C3: with a query year and candidate years supplied, a candidate with the query's
\* normalized title and a different recorded year is never the one accepted.
C3_YearMismatchRejected ==
  (pc = "matched" /\ Truthy(args.year) /\ args.candidate_years # <<>> /\ ret.idx # 0)
    => ~YearMismatch(ret.idx)

\* the year rule of the claim: no year or no candidate years supplied, or the
\* candidate's year equals the query year, or the candidate has no recorded year
YearRule(i) ==
  \/ ~Truthy(args.year)
  \/ args.candidate_years = <<>>
  \/ ~Truthy(args.candidate_years[i])
  \/ args.candidate_years[i][1] = args.year[1]

\* acceptable as C9 words it: normalized forms equal under the year rule, or fuzzy
\* score at or above the threshold
Acceptable(i) ==
  \/ (normalize_title(args.candidates[i]) = normalize_title(args.title) /\ YearRule(i))
  \/ token_sort_ratio_ge(normalize_title(args.title), normalize_title(args.candidates[i]),
                         args.threshold)

AcceptedWithoutYear(i) ==
  /\ normalize_title(args.candidates[i]) = normalize_title(args.title)
  /\ \/ ~Truthy(args.year)
     \/ args.candidate_years = <<>>
     \/ ~Truthy(args.candidate_years[i])

\* C20: a candidate whose normalized title equals the normalized query is accepted when
\* no query year or no candidate years are supplied, and when a query year is supplied
\* but the candidate has no recorded year: find_best_match returns it, unless it has
\* returned a candidate before it
C20_YearWildcard ==
  pc = "matched" =>
    \A i \in 1..Len(args.candidates) :
      AcceptedWithoutYear(i) => (ret.idx # 0 /\ ret.idx <= i)

\* with the fuzzy fallback out of reach and a query year given, the candidate returned has
\* the normalized title of the query and no recorded year
C20_Witness ==
  /\ pc = "matched"
  /\ args.threshold = HighThreshold
  /\ Truthy(args.year)
  /\ args.candidate_years # <<>>
  /\ ret.idx # 0
  /\ args.candidate_years[ret.idx] = <<>>
  /\ ret.match = Some(args.candidates[ret.idx])

\* some candidate has the normalized title of the query
HasExactCandidate ==
  \E i \in 1..Len(args.candidates) :
    normalize_title(args.candidates[i]) = normalize_title(args.title)

\* C21: with no year supplied and a candidate with the query's normalized title in the
\* list, the candidate returned has the query's normalized title; it is not an earlier
\* candidate that only reaches the fuzzy threshold.
C21_ExactNotPreempted ==
  (pc = "matched" /\ ~Truthy(args.year) /\ HasExactCandidate) =>
    /\ ret.idx # 0
    /\ normalize_title(args.candidates[ret.idx]) = normalize_title(args.title)

(***************************************************************************)
(* Claims about compare_titles, checked under SpecCompare.                 *)
(***************************************************************************)
SourceSet == { args.source_titles[i] : i \in 1..Len(args.source_titles) }

TargetKeys == { normalize_title(args.target_titles[i]) : i \in 1..Len(args.target_titles) }

Reported == { ret.titles[i] : i \in 1..Len(ret.titles) }

\* C10 as claimed: without fuzzy matching a source title is reported exactly when its
\* normalized title is the normalized title of no target item.
C10_MissingIffNotInTarget ==
  (pc = "compared" /\ ~args.fuzzy) =>
    \A t \in SourceSet : (t \in Reported) <=> (normalize_title(t) \notin TargetKeys)

\* C10 amended: without fuzzy matching the report holds a title with normalized form n
\* exactly when n is the normalized title of a source item and of no target item,
\* whatever the years; every reported title is a source title.
C10_MissingKeysIffNotInTarget ==
  (pc = "compared" /\ ~args.fuzzy) =>
    /\ Reported \subseteq SourceSet
    /\ { normalize_title(t) : t \in Reported }
         = { normalize_title(t) : t \in SourceSet } \ TargetKeys
    /\ ret.none_missing <=> (Reported = {})

\* C10 witness: source ['A (2020)', 'B (2021)'] against target ['A (2020)'], years
\* differing, reports exactly ['B (2021)']
C10_Witness ==
  /\ pc = "compared"
  /\ ~args.fuzzy
  /\ args.source_titles = << <<"A", " ", "(", "2", "0", "2", "0", ")">>, <<"B", " ", "(", "2", "0", "2", "1", ")">> >>
  /\ args.target_titles = << <<"A", " ", "(", "2", "0", "2", "0", ")">> >>
  /\ args.source_years[1] # args.target_years[1]
  /\ ret.titles = << <<"B", " ", "(", "2", "0", "2", "1", ")">> >>

\* the first title of the source list that has the normalized title of t
FirstSeen(t) ==
  args.source_titles[Min({ i \in 1..Len(args.source_titles) :
                             normalize_title(args.source_titles[i]) = normalize_title(t) })]

\* C14: the report of compare_titles holds at most one entry for a normalized title, and
\* the entry is the first title of the source list that has this normalized title
C14_FirstSeenReported ==
  pc = "compared" =>
    /\ \A i, j \in 1..Len(ret.titles) :
         normalize_title(ret.titles[i]) = normalize_title(ret.titles[j]) => i = j
    /\ \A i \in 1..Len(ret.titles) : ret.titles[i] = FirstSeen(ret.titles[i])

\* C15: the titles of the report are in ascending order of their normalized titles
C15_SortedByNormalizedTitle ==
  pc = "compared" =>
    \A i, j \in 1..Len(ret.titles) :
      i < j => ~StrLess(normalize_title(ret.titles[j]), normalize_title(ret.titles[i]))

(***************************************************************************)
(* Claims about the sync engine, checked under Spec.                       *)
(***************************************************************************)
MarkApis == {"plex.markPlayed", "jellyfin.PlayedItems"}

KnownDirections == {JELLYFIN_PLEX, PLEX_JELLYFIN}

\* C1: in a sync run with dry-run enabled, of movies or of TV and in either direction, no
\* mutating catalog call is issued (no Plex markPlayed, no Plex addedAt edit, no Jellyfin
\* PlayedItems POST) and the catalogs are, at every point of the run, what they were when
\* the run started
C1_DryRunWritesNothing ==
  (run >= 1 /\ dryrun) => (calls = <<>> /\ Snapshot = before)

\* a dry run of a known direction came to its end and reported a change it would have made
C1_Witness ==
  /\ run >= 1 /\ dryrun /\ pc = "done"
  /\ direction \in KnownDirections
  /\ \E k \in 1..Len(out) : out[k].dryrun

\* the run before this one was a real run of the same direction, came to its end, and
\* every write it issued was applied by the catalog
FirstRunApplied ==
  /\ run >= 2 /\ previous.run = run - 1
  /\ direction \in KnownDirections
  /\ RemoveSpaces(Lower(previous.args.direction)) = direction
  /\ ~previous.args.dryrun
  /\ previous.pc = "done"
  /\ \A k \in 1..Len(previous.calls) : previous.calls[k].status = "ok"

\* C2: when the sync is run twice in sequence in the same direction, nothing else changing
\* the catalogs and the writes of the first run applied, the second run issues no
\* mark-watched call, for movies and for episodes, in either direction
C2_SecondRunMarksNothing ==
  FirstRunApplied => \A k \in 1..Len(calls) : calls[k].api \notin MarkApis

\* the second of two real runs of one direction has come to its end, and the first one
\* had marked something
C2_Witness ==
  /\ FirstRunApplied /\ ~dryrun /\ pc = "done"
  /\ \E k \in 1..Len(previous.calls) : previous.calls[k].api \in MarkApis

EpisodePcs == {"tv_jellyfin_plex_episodes", "tv_plex_jellyfin_episodes"}

\* the Jellyfin show matched to the Plex show being processed
MatchedShow == jellyfin_shows[jellyfin_get_by_title(local_list[item_no].title, jellyfin_shows)]

\* the places of the Jellyfin episodes of the matched show that have the season number
\* and the episode number of the local episode
Counterparts(lepisode) ==
  { k \in 1..Len(jellyfin_episodes) :
      /\ jellyfin_episodes[k].SeriesId = MatchedShow.Id
      /\ jellyfin_episodes[k].SeasonNumber = lepisode.seasonNumber
      /\ jellyfin_episodes[k].IndexNumber = lepisode.index }

\* C4: in TV sync, in both directions, a step of the episode loop issues a call only when
\* the matched show has a remote episode with the season number and the episode number
\* of the local episode, whatever the titles are; a call to Jellyfin addresses such an
\* episode, and a call to Plex addresses the local episode itself
C4_PairingByNumbers ==
  [][ (pc \in EpisodePcs /\ calls' # calls) =>
        LET lepisode == local_episodes[episode_no]
            call == calls'[Len(calls')]
        IN /\ Counterparts(lepisode) # {}
           /\ call.api = "jellyfin.PlayedItems" =>
                \E k \in Counterparts(lepisode) : jellyfin_episodes[k].Id = call.item
           /\ call.api = "plex.markPlayed" => call.item = <<item_no, episode_no>> ]_vars

\* the first episode of the first show led to a call, in a catalog where its title differs
\* from the name of every counterpart while an episode of the matched show with other
\* numbers has that title
C4_Witness ==
  /\ pc \in EpisodePcs /\ item_no = 1 /\ episode_no = 2 /\ Len(calls) = 1
  /\ LET lepisode == local_episodes[1]
     IN /\ \/ calls[1].api = "plex.markPlayed"
           \/ /\ calls[1].api = "jellyfin.PlayedItems"
              /\ \E k \in Counterparts(lepisode) : jellyfin_episodes[k].Id = calls[1].item
        /\ \A k \in Counterparts(lepisode) : jellyfin_episodes[k].Name # lepisode.title
        /\ \E k \in 1..Len(jellyfin_episodes) :
             /\ jellyfin_episodes[k].SeriesId = MatchedShow.Id
             /\ jellyfin_episodes[k].Name = lepisode.title
             /\ k \notin Counterparts(lepisode)

\* C5: a transport failure of a catalog call made while an item of a sync run is being
\* processed does not end the run: the run never stops on an exception with that item
\* and the items after it unprocessed
C5_TransportFailureSkipsItem ==
  ~(pc = "crashed" /\ item_no \in 1..Len(local_list) /\ out[Len(out)] = Traceback("transport"))


\* the lines that report a decision to change something
DecisionMsgs ==
  {"Updating Movie", "Remote watched and local unwatched", "Local watched and remote unwatched"}

\* the decisions a run reported, in order: what was decided and about which item
Decisions(lines) ==
  LET decided == SelectSeq(lines, LAMBDA line : line.msg \in DecisionMsgs)
  IN [k \in 1..Len(decided) |-> [msg |-> decided[k].msg, item |-> decided[k].item]]

\* a dry run came to its end and was followed, from the catalogs it left untouched, by a
\* real run of the same direction that came to its end with every write applied
DryThenReal ==
  /\ run >= 2 /\ previous.run = run - 1
  /\ direction \in KnownDirections
  /\ RemoveSpaces(Lower(previous.args.direction)) = direction
  /\ previous.args.dryrun /\ ~dryrun
  /\ previous.pc = "done" /\ pc = "done"
  /\ \A k \in 1..Len(calls) : calls[k].status = "ok"

\* C11: the dry run and the real run started from the same catalogs report the same
\* sequence of decisions (the items reported as to be marked or updated are the items
\* marked or updated), also when several source items have the same counterpart
C11_DryRunSameDecisions ==
  DryThenReal => Decisions(previous.out) = Decisions(out)


\* the calls issued by the step
NewCalls == SubSeq(calls', Len(calls) + 1, Len(calls'))

\* the Jellyfin movie that is the counterpart of the Plex movie being processed, 0 if none
RemoteMovie == jellyfin_get_by_title(local_list[item_no].title, jellyfin_movies)

\* the Jellyfin episode that is the counterpart of the Plex episode being processed
RemoteEpisodeNo == Min(Counterparts(local_episodes[episode_no]))

\* the step examines a matched pair: a movie and its counterpart, or an episode and its
\* counterpart
PairExamined ==
  \/ /\ pc \in {"movies_jellyfin_plex", "movies_plex_jellyfin"}
     /\ item_no <= Len(local_list)
     /\ RemoteMovie # 0
  \/ /\ pc \in EpisodePcs
     /\ episode_no <= Len(local_episodes)
     /\ Counterparts(local_episodes[episode_no]) # {}

\* the watched flag the Plex item of the pair has in the Plex catalog
PlexWatched ==
  IF pc \in EpisodePcs THEN plex_lib_tv[item_no].episodes[episode_no].isPlayed
  ELSE plex_lib_movies[item_no].isPlayed

\* the watched flag the Jellyfin item of the pair has in the Jellyfin catalog
JellyfinWatched ==
  IF pc \in EpisodePcs THEN Played(jellyfin_episodes[RemoteEpisodeNo])
  ELSE Played(jellyfin_movies[RemoteMovie])

ToPlex == pc \in {"movies_jellyfin_plex", "tv_jellyfin_plex_episodes"}

\* the flags of the source side (A) and of the destination side (B) of the pair
SourceWatched == IF ToPlex THEN JellyfinWatched ELSE PlexWatched

DestinationWatched == IF ToPlex THEN PlexWatched ELSE JellyfinWatched

\* the step issues a mark-watched call for the destination item of the pair
MarkIssued ==
  \E k \in 1..Len(NewCalls) :
    /\ NewCalls[k].api \in MarkApis
    /\ NewCalls[k].item =
         IF pc = "movies_jellyfin_plex" THEN item_no
         ELSE IF pc = "movies_plex_jellyfin" THEN jellyfin_movies[RemoteMovie].Id
         ELSE IF pc = "tv_jellyfin_plex_episodes" THEN <<item_no, episode_no>>
         ELSE jellyfin_episodes[RemoteEpisodeNo].Id

\* C12: in a real run of direction A->B, a step that examines a matched pair issues the
\* mark-watched call for the B-side item only if A's flag is watched and B's flag is not,
\* and, unless a transport error ends the run in that step, it issues the call if so
C12_MarkIffSourceWatchedOnly ==
  [][ (run >= 1 /\ ~dryrun /\ PairExamined) =>
        /\ MarkIssued => (SourceWatched /\ ~DestinationWatched)
        /\ (pc' # "crashed" /\ SourceWatched /\ ~DestinationWatched) => MarkIssued ]_vars


AbsDiff(a, b) == IF a >= b THEN a - b ELSE b - a

\* C13: in a real movie sync of direction jellyfin,plex, a step that examines a matched
\* pair leaves the addedAt of the local movie alone when it and the remote creation time,
\* each truncated to the minute, are twelve hours or less apart, and, unless a transport
\* error ends the run in that step, overwrites it with the remote creation time (to the
\* minute) when they are more than twelve hours apart, in either direction
C13_AddedAtTwelveHours ==
  [][ (/\ run >= 1 /\ ~dryrun /\ pc = "movies_jellyfin_plex" /\ PairExamined
       /\ "DateCreated" \in DOMAIN jellyfin_movies[RemoteMovie]) =>
        LET local == plex_lib_movies[item_no].addedAt
            remote == TruncateToMinute(jellyfin_movies[RemoteMovie].DateCreated)
            apart == AbsDiff(TruncateToMinute(local), remote)
        IN /\ apart <= TwelveHours => plex_lib_movies'[item_no].addedAt = local
           /\ (apart > TwelveHours /\ pc' # "crashed") =>
                plex_lib_movies'[item_no].addedAt = remote ]_vars


\* the lines printed by the step
NewOut == SubSeq(out', Len(out) + 1, Len(out'))

MoviePcs == {"movies_jellyfin_plex", "movies_plex_jellyfin"}

\* the Matcher finds a counterpart of the Plex movie being processed among the Jellyfin
\* movies: one of equal normalized title, or of a fuzzy score at or above the threshold
MatcherFindsMovie ==
  LET names == [k \in 1..Len(jellyfin_movies) |-> jellyfin_movies[k].Name]
  IN find_best_match_index(local_list[item_no].title, names, DefaultThreshold, <<>>, <<>>) # 0

\* C16: in movie sync, a local movie for which the Matcher finds a counterpart among the
\* remote movies is not reported as not found
C16_MovieFoundByMatcher ==
  [][ (run >= 1 /\ pc \in MoviePcs /\ item_no <= Len(local_list) /\ pc' # "crashed"
       /\ MatcherFindsMovie) =>
        \A k \in 1..Len(NewOut) : NewOut[k].msg # "Unable to find movie in Jellyfin" ]_vars


ShowPcs == {"tv_jellyfin_plex", "tv_plex_jellyfin"}

\* the lookup of the step finds no counterpart of the movie or show being processed
NoCounterpart ==
  IF pc \in MoviePcs THEN RemoteMovie = 0
  ELSE jellyfin_get_by_title(local_list[item_no].title, jellyfin_shows) = 0

\* C17: in any sync run, the step that finds no remote counterpart of a local movie or
\* show reports it, issues no call, changes no catalog, does not enter the episodes of the
\* show, and leaves the loop at the next item
C17_NotFoundSkipped ==
  [][ (run >= 1 /\ pc \in MoviePcs \cup ShowPcs /\ item_no <= Len(local_list)
       /\ pc' # "crashed" /\ NoCounterpart) =>
        /\ NewOut = << Line(IF pc \in MoviePcs THEN "Unable to find movie in Jellyfin"
                            ELSE "Unable to find show in Jellyfin", FALSE, item_no) >>
        /\ calls' = calls
        /\ catalogs' = catalogs
        /\ pc' = pc /\ local_list' = local_list
        /\ item_no' = item_no + 1 ]_vars

\* an item was reported as not found and the item after it was examined
C17_Witness ==
  /\ run >= 1
  /\ \E k \in 1..(Len(out) - 1) :
       /\ out[k].msg \in {"Unable to find movie in Jellyfin", "Unable to find show in Jellyfin"}
       /\ out[k + 1].msg \in {"Checking movie", "Checking show"}
       /\ out[k + 1].item = out[k].item + 1


\* C18: a catalog record without an expected field makes the run skip the item: the run
\* never ends on the KeyError of reading the field
C18_MissingFieldSkipsItem ==
  ~(pc = "crashed" /\ out[Len(out)] = Traceback("KeyError"))


\* the matched pairs of movies: the place of a Plex movie and the place of the Jellyfin
\* movie the lookup finds for it
MoviePairs ==
  { <<n, jellyfin_get_by_title(plex_lib_movies[n].title, jellyfin_movies)>> :
      n \in { m \in 1..Len(plex_lib_movies) :
                jellyfin_get_by_title(plex_lib_movies[m].title, jellyfin_movies) # 0 } }

\* the place of the Jellyfin episode paired with episode e of the Plex show n, 0 if the
\* show or the episode has no counterpart
RemoteEpisodeOf(n, e) ==
  LET r == jellyfin_get_by_title(plex_lib_tv[n].title, jellyfin_shows)
      lepisode == plex_lib_tv[n].episodes[e]
      same == IF r = 0 THEN {}
              ELSE { k \in 1..Len(jellyfin_episodes) :
                       /\ jellyfin_episodes[k].SeriesId = jellyfin_shows[r].Id
                       /\ jellyfin_episodes[k].SeasonNumber = lepisode.seasonNumber
                       /\ jellyfin_episodes[k].IndexNumber = lepisode.index }
  IN IF same = {} THEN 0 ELSE Min(same)

\* the matched pairs of episodes: the places of a Plex show and of its episode, and the
\* place of the Jellyfin episode paired with it
EpisodePairs ==
  UNION { { <<n, e, RemoteEpisodeOf(n, e)>> :
              e \in { d \in 1..Len(plex_lib_tv[n].episodes) : RemoteEpisodeOf(n, d) # 0 } } :
          n \in 1..Len(plex_lib_tv) }

\* a real run came to its end with every write applied and was followed by a real run of
\* the opposite direction that came to its end with every write applied
BothDirectionsRun ==
  /\ run >= 2 /\ previous.run = run - 1
  /\ direction \in KnownDirections
  /\ RemoveSpaces(Lower(previous.args.direction)) \in KnownDirections \ {direction}
  /\ ~previous.args.dryrun /\ ~dryrun
  /\ previous.pc = "done" /\ pc = "done"
  /\ \A k \in 1..Len(previous.calls) : previous.calls[k].status = "ok"
  /\ \A k \in 1..Len(calls) : calls[k].status = "ok"

\* C19: after a real sync in one direction and a real sync in the other, all writes
\* applied, the two items of every matched pair have the same watched flag, and it is the
\* logical OR of the flags the two had before the first run
C19_BidirectionalConvergence ==
  BothDirectionsRun =>
    /\ \A t \in MoviePairs :
         /\ plex_lib_movies[t[1]].isPlayed = Played(jellyfin_movies[t[2]])
         /\ plex_lib_movies[t[1]].isPlayed =
              (previous.before.plex_lib_movies[t[1]].isPlayed
                 \/ Played(previous.before.jellyfin_movies[t[2]]))
    /\ \A t \in EpisodePairs :
         /\ plex_lib_tv[t[1]].episodes[t[2]].isPlayed = Played(jellyfin_episodes[t[3]])
         /\ plex_lib_tv[t[1]].episodes[t[2]].isPlayed =
              (previous.before.plex_lib_tv[t[1]].episodes[t[2]].isPlayed
                 \/ Played(previous.before.jellyfin_episodes[t[3]]))


\* the places in calls of the mark-watched writes that went through
AppliedMarks == { k \in 1..Len(calls) : calls[k].api \in MarkApis /\ calls[k].status = "ok" }

\* C22: within one run, no catalog item receives more than one mark-watched write, also
\* when several local items resolve to the same counterpart (calls holds the writes of
\* the current run only, and none in a dry run).
C22_NoDuplicateMarks ==
  \A j \in AppliedMarks : \A k \in AppliedMarks :
    (j < k /\ calls[j].api = calls[k].api) => calls[j].item # calls[k].item

\* the places of the Plex episodes: show and episode
PlexEpisodePlaces ==
  UNION { { <<n, e>> : e \in 1..Len(plex_lib_tv[n].episodes) } : n \in 1..Len(plex_lib_tv) }

\* the step changes no watched flag from watched to unwatched
NoFlagCleared ==
  /\ \A n \in 1..Len(plex_lib_movies) :
       plex_lib_movies[n].isPlayed => plex_lib_movies'[n].isPlayed
  /\ \A t \in PlexEpisodePlaces :
       plex_lib_tv[t[1]].episodes[t[2]].isPlayed => plex_lib_tv'[t[1]].episodes[t[2]].isPlayed
  /\ \A k \in 1..Len(jellyfin_movies) :
       Played(jellyfin_movies[k]) => Played(jellyfin_movies'[k])
  /\ \A k \in 1..Len(jellyfin_episodes) :
       Played(jellyfin_episodes[k]) => Played(jellyfin_episodes'[k])

\* the number of items with a watched flag in the two catalogs
NumberOfItems ==
  Len(plex_lib_movies) + Cardinality(PlexEpisodePlaces)
    + Len(jellyfin_movies) + Len(jellyfin_episodes)

\* the number of mark-watched writes that went through, in the run before and in this one
MarksApplied ==
  Cardinality(AppliedMarks)
    + IF previous.run = 0 THEN 0
      ELSE Cardinality({ k \in 1..Len(previous.calls) :
                           /\ previous.calls[k].api \in MarkApis
                           /\ previous.calls[k].status = "ok" })

\* C23: in any sequence of runs, in any directions, dry or not, no step changes a watched
\* flag from watched to unwatched, and the mark-watched writes applied over the runs are
\* at most as many as the items.
C23_NoOscillation ==
  /\ [][NoFlagCleared]_vars
  /\ [](MarksApplied <= NumberOfItems)

\* a real run of one direction marked an item, and the real run of the other direction
\* that followed marked an item too and came to its end
C23_Witness ==
  /\ run = 2 /\ pc = "done"
  /\ direction \in KnownDirections
  /\ RemoveSpaces(Lower(previous.args.direction)) \in KnownDirections \ {direction}
  /\ AppliedMarks # {}
  /\ MarksApplied > Cardinality(AppliedMarks)

\* the creation times of the Jellyfin movies, None for a record without one
JellyfinCreationTimes(movies) ==
  [k \in 1..Len(movies) |->
     IF "DateCreated" \in DOMAIN movies[k] THEN Some(movies[k].DateCreated) ELSE None]

\* the watched flags of the Jellyfin movies and episodes
JellyfinFlags(movies, episodes) ==
  << [k \in 1..Len(movies) |-> Played(movies[k])],
     [k \in 1..Len(episodes) |-> Played(episodes[k])] >>

\* C24: a step of a run in direction plex,jellyfin leaves every Plex watched flag and
\* addedAt as it is, a step of a run in direction jellyfin,plex leaves every Jellyfin
\* watched flag as it is, and no step of any run changes a Jellyfin creation time.
C24_WritesOnlyToDestination ==
  [][ /\ direction = PLEX_JELLYFIN =>
           (plex_lib_movies' = plex_lib_movies /\ plex_lib_tv' = plex_lib_tv)
      /\ direction = JELLYFIN_PLEX =>
           JellyfinFlags(jellyfin_movies', jellyfin_episodes')
             = JellyfinFlags(jellyfin_movies, jellyfin_episodes)
      /\ JellyfinCreationTimes(jellyfin_movies') = JellyfinCreationTimes(jellyfin_movies)
    ]_vars

\* a real run of jellyfin,plex wrote to Plex and left the Jellyfin flags alone, and the
\* real run of plex,jellyfin that followed marked a Jellyfin item and left Plex alone
C24_Witness ==
  /\ run = 2 /\ pc = "done" /\ ~dryrun
  /\ direction = PLEX_JELLYFIN
  /\ RemoveSpaces(Lower(previous.args.direction)) = JELLYFIN_PLEX
  /\ \E k \in 1..Len(previous.calls) : previous.calls[k].status = "ok"
  /\ previous.before.plex_lib_movies # before.plex_lib_movies
  /\ JellyfinFlags(previous.before.jellyfin_movies, previous.before.jellyfin_episodes)
       = JellyfinFlags(before.jellyfin_movies, before.jellyfin_episodes)
  /\ AppliedMarks # {}
  /\ plex_lib_movies = before.plex_lib_movies
  /\ JellyfinFlags(jellyfin_movies, jellyfin_episodes)
       # JellyfinFlags(before.jellyfin_movies, before.jellyfin_episodes)
  /\ JellyfinCreationTimes(jellyfin_movies)
       = JellyfinCreationTimes(previous.before.jellyfin_movies)

\* the run has printed 'Unknown sync direction'
UnknownDirectionReported ==
  \E k \in 1..Len(out) : out[k].msg = "Unknown sync direction"

\* C25: for a library of movies or tv, a run with a recognized direction never prints
\* 'Unknown sync direction', a run with any other direction has printed it when it ends,
\* and a run with any other direction issues no catalog write.
C25_UnknownDirectionIffUnrecognized ==
  library \in {MOVIES, TV} =>
    /\ direction \in KnownDirections => ~UnknownDirectionReported
    /\ (direction \notin KnownDirections /\ pc = "done") => UnknownDirectionReported
    /\ direction \notin KnownDirections => calls = <<>>

====
